---- MODULE Spec2Model ----
(***************************************************************************)
(* A state-machine model of the MIPS DAG-to-DAG instruction selector       *)
(* (lib/Target/Mips/MipsISelDAGToDAG.cpp): the address mode matcher        *)
(* SelectAddr, the node selector Select and the per-block driver           *)
(* InstructionSelectBasicBlock.                                            *)
(*                                                                         *)
(* The selection DAG is an arena `nodes` (a sequence of node records, a    *)
(* node is named by its index).  The nodes 1..DAGSize are the nodes of the *)
(* DAG handed to the selector; they carry the topological node ids that    *)
(* SelectRoot assigns (users before operands, the root is node 1).  Every  *)
(* node appended later was built during selection and has node id -1.      *)
(***************************************************************************)
EXTENDS Integers, Sequences, FiniteSets, TLC

VARIABLES
  nodes,        \* CurDAG: the arena of SDNodes, [op, ops, val, vt]
  inDAG,        \* the DAG as it was handed to the selector (never changes)
  DAGSize,      \* number of nodes of the input DAG (those with a node id)
  root,         \* CurDAG->getRoot()
  alive,        \* the nodes currently in the DAG's AllNodes list
  ISelQueue,    \* the selection queue of SelectRoot
  ISelQueued,   \* the "queued" bit per node id
  ISelSelected, \* the "selected" bit per node id
  Indent,       \* MipsDAGToDAGISel::Indent (debug builds)
  PatternTable, \* opcodes for which the generated matcher has a pattern
  pc,           \* position of the driver / of the calling harness
  selN,         \* argument of the last Select call (0: none yet)
  selRet,       \* its result: NULL or a node
  selLog,       \* what that call did, in order: queue / build / selectcode
  selIndent0,   \* Indent when that call was entered
  selCount,     \* per input node: how often it was passed to Select
  selRepl,      \* per input node: the replacement installed for it (0: none)
  calls,        \* number of harness calls made
  addrN,        \* argument Addr of the last SelectAddr call (0: none yet)
  addrRet,      \* its boolean result
  arg3,         \* what the call left in its third argument (0: untouched)
  arg4          \* what the call left in its fourth argument (0: untouched)

vars == <<nodes, inDAG, DAGSize, root, alive, ISelQueue, ISelQueued, ISelSelected,
          Indent, PatternTable, pc, selN, selRet, selLog, selIndent0,
          selCount, selRepl, calls, addrN, addrRet, arg3, arg4>>

-----------------------------------------------------------------------------
(* Bounds of the model.                                                    *)

\* frame indices range over 0..MaxFI
MaxFI == 1
\* Indent is not initialised by the constructor: it starts as any of
\* 0..MaxGarbage
MaxGarbage == 1
\* number of direct Select calls the calling harness makes
MaxCalls == 2
\* number of consumers that share one node in the block-level DAGs
MaxConsumers == 3

-----------------------------------------------------------------------------
(* Opcodes.  An opcode is a name; its number is its position in the        *)
(* enumeration: the generic ISD opcodes, then (from ISD::BUILTIN_OP_END)   *)
(* the machine instructions, then (from MipsISD::FIRST_NUMBER) the         *)
(* MipsISD nodes.                                                          *)

GenericOps == <<"EntryToken", "Register", "Constant", "TargetConstant",
                "FrameIndex", "TargetFrameIndex", "TargetGlobalAddress",
                "TargetExternalSymbol", "ADD", "MULHS", "MULHU", "SDIV",
                "UDIV", "SREM", "UREM", "LOAD", "STORE">>

MachineOps == <<"MULT", "MULTu", "DIV", "DIVu", "MFHI", "MFLO", "ADDu",
                "ADDiu", "LUi", "LW", "SW">>

MipsISDOps == <<"MipsISD_Hi", "MipsISD_Lo">>

AllOps == GenericOps \o MachineOps \o MipsISDOps

BUILTIN_OP_END == Len(GenericOps)

FIRST_NUMBER == BUILTIN_OP_END + Len(MachineOps)

\* SDNode::getOpcode(), as a number
getOpcode(op) == (CHOOSE i \in 1..Len(AllOps) : AllOps[i] = op) - 1

NULL == 0

Node(op, ops, val, vt) == [op |-> op, ops |-> ops, val |-> val, vt |-> vt]

\* SDNode::getNodeId(): the topological id of an input node, -1 for a
\* node built during selection
getNodeId(n) == IF n <= DAGSize THEN n ELSE -1

-----------------------------------------------------------------------------
(* SelectAddr                                                              *)

\* dyn_cast<FrameIndexSDNode>: FrameIndex and TargetFrameIndex nodes
isFrameIndexSDNode(nd) == nd.op \in {"FrameIndex", "TargetFrameIndex"}

\* dyn_cast<ConstantSDNode>: Constant and TargetConstant nodes
isConstantSDNode(nd) == nd.op \in {"Constant", "TargetConstant"}

\* the test of lines 141-142, dropping TargetGlobalAddress
isTargetSymbol_NoGlobal(nd) == nd.op = "TargetExternalSymbol"

\* the test of lines 141-142
isTargetSymbol(nd) == nd.op \in {"TargetExternalSymbol", "TargetGlobalAddress"}

\* The payload val of an i32 constant node is the two's-complement reading
\* of its 32-bit pattern, a number in -2^31 .. 2^31-1.

\* (short)v: the low 16 bits of the pattern, sign-extended
AsShort(v) == LET lo == v % 65536 IN IF lo >= 32768 THEN lo - 65536 ELSE lo

\* the generated predicate of the immSExt16 pattern leaf on an i32
\* constant: (int32_t)N->getValue() == (short)N->getValue()
Predicate_immSExt16(nd) == nd.val = AsShort(nd.val)

\* CurDAG->getTargetConstant(Val, MVT::i32)
getTargetConstant(v) == Node("TargetConstant", <<>>, v, "i32")

getTargetFrameIndex(k) == Node("TargetFrameIndex", <<>>, k, "i32")

\* lines 153-158 with the frame-index test dropped
AddBase_Verbatim(ns, Addr) == [new |-> <<>>, base |-> ns[Addr].ops[1]]

\* lines 153-158: the base of a matched add; `new` are the nodes it builds
AddBase(ns, Addr) ==
  LET X == ns[Addr].ops[1] IN
  IF isFrameIndexSDNode(ns[X])
    THEN [new |-> <<getTargetFrameIndex(ns[X].val)>>, base |-> Len(ns) + 1]
    ELSE [new |-> <<>>, base |-> X]

\* SelectAddr(Op, Addr, Offset, Base) on the arena ns.  The result names
\* the nodes built (in order), the return value, and what the body assigned
\* to the variables it calls Base and Offset (NULL: not assigned).
SelectAddr(ns, Addr) ==
  LET A == ns[Addr] IN
  IF isFrameIndexSDNode(A) THEN
    [ret |-> TRUE,
     new |-> <<getTargetFrameIndex(A.val), getTargetConstant(0)>>,
     Base |-> Len(ns) + 1, Offset |-> Len(ns) + 2]
  ELSE IF isTargetSymbol(A) THEN
    [ret |-> FALSE, new |-> <<>>, Base |-> NULL, Offset |-> NULL]
  ELSE IF /\ A.op = "ADD"
          /\ isConstantSDNode(ns[A.ops[2]])
          /\ Predicate_immSExt16(ns[A.ops[2]]) THEN
    LET b == AddBase(ns, Addr) IN
    [ret |-> TRUE,
     new |-> b.new \o <<getTargetConstant(ns[A.ops[2]].val)>>,
     Base |-> b.base, Offset |-> Len(ns) + Len(b.new) + 1]
  ELSE
    [ret |-> TRUE, new |-> <<getTargetConstant(0)>>,
     Base |-> Addr, Offset |-> Len(ns) + 1]

\* The definition's parameter list (line 129) is (Op, Addr, Offset, Base):
\* the third argument of a call receives what the body assigns to Offset,
\* the fourth what it assigns to Base.
ThirdArg(r) == r.Offset

FourthArg(r) == r.Base

\* after a call: the value of the variable the definition calls Base (its
\* fourth parameter) and of the one it calls Offset (its third)
AddrBaseOut == arg4

AddrOffsetOut == arg3

-----------------------------------------------------------------------------
(* Inputs of the address matcher: one address node (node 1) over leaves.   *)

\* constants around both ends of the signed 16-bit range
ConstVals == {-32769, -32768, -1, 0, 8, 100, 32767, 32768, 70000}

Reg == Node("Register", <<>>, 0, "i32")

AddrLeaves ==
     {Node(op, <<>>, k, "i32") : op \in {"FrameIndex", "TargetFrameIndex"}, k \in 0..MaxFI}
  \cup {Node(op, <<>>, 0, "i32") : op \in {"TargetGlobalAddress", "TargetExternalSymbol", "Register"}}
  \cup {Node("Constant", <<>>, 8, "i32")}

AddrSecond ==
     {Node(op, <<>>, c, "i32") : op \in {"Constant", "TargetConstant"}, c \in ConstVals}
  \cup {Reg, Node("FrameIndex", <<>>, 0, "i32")}

\* the address DAGs: a leaf; op(X, Y) over leaves; add(add(R, c1), Y)
AddrDAGs ==
     {<<l>> : l \in AddrLeaves}
  \cup {<<Node(op, <<2, 3>>, 0, "i32"), x, y>> :
          op \in {"ADD", "SDIV"}, x \in AddrLeaves, y \in AddrSecond}
  \cup {<<Node("ADD", <<2, 3>>, 0, "i32"), Node("ADD", <<4, 5>>, 0, "i32"), y,
          Reg, Node("Constant", <<>>, c1, "i32")>> :
          y \in AddrSecond, c1 \in {8, 70000}}
  \cup {<<Node("LOAD", <<2>>, 0, "i32"), x>> : x \in AddrLeaves}

NoSelect ==
  /\ selN = NULL /\ selRet = NULL /\ selLog = <<>> /\ selIndent0 = 0
  /\ selCount = [n \in 1..DAGSize |-> 0]
  /\ selRepl = [n \in 1..DAGSize |-> NULL]
  /\ calls = 0

NoAddr == addrN = NULL /\ addrRet = FALSE /\ arg3 = NULL /\ arg4 = NULL

NoQueue == ISelQueue = {} /\ ISelQueued = {} /\ ISelSelected = {}

InitAddr ==
  /\ nodes \in AddrDAGs
  /\ inDAG = nodes
  /\ DAGSize = Len(nodes)
  /\ root = 1
  /\ alive = 1..Len(nodes)
  /\ NoQueue
  /\ Indent \in 0..MaxGarbage
  /\ PatternTable = {}
  /\ pc = "addr"
  /\ NoSelect
  /\ NoAddr

\* a pattern's call SelectAddr(N, Addr, CPTmp0, CPTmp1) with fresh
\* (null) CPTmp0, CPTmp1
CallSelectAddr(Addr) ==
  /\ pc = "addr"
  /\ addrN = NULL
  /\ \E r \in {SelectAddr(nodes, Addr)} :
       /\ nodes' = nodes \o r.new
       /\ alive' = alive \cup (Len(nodes) + 1 .. Len(nodes) + Len(r.new))
       /\ addrRet' = r.ret
       /\ arg3' = ThirdArg(r)
       /\ arg4' = FourthArg(r)
  /\ addrN' = Addr
  /\ UNCHANGED <<inDAG, DAGSize, root, ISelQueue, ISelQueued, ISelSelected, Indent,
                 PatternTable, pc, selN, selRet, selLog, selIndent0, selCount,
                 selRepl, calls>>

NextAddr == \E Addr \in 1..DAGSize : CallSelectAddr(Addr)

SpecAddr == InitAddr /\ [][NextAddr]_vars

-----------------------------------------------------------------------------
(* Select.  A call works on a record st of the state it reads and writes:  *)
(* the arena, the selection queue and its bits, Indent, and the log of     *)
(* what the call did.                                                      *)

CallState ==
  [nodes |-> nodes, queue |-> ISelQueue, queued |-> ISelQueued,
   indent |-> Indent, log |-> <<>>]

\* AddToISelQueue(N): a node without node id, or already queued, is not
\* pushed.  The call itself is logged.
AddToISelQueue(st, n) ==
  LET s1 == [st EXCEPT !.log = Append(@, <<"queue", n>>)] IN
  IF getNodeId(n) # -1 /\ n \notin st.queued
    THEN [s1 EXCEPT !.queue = @ \cup {n}, !.queued = @ \cup {n}]
    ELSE s1

\* CurDAG->getTargetNode / getTargetConstant / getTargetFrameIndex: the
\* node is appended to the arena; its name is Len(nodes) afterwards.
BuildNode(st, nd) ==
  [st EXCEPT !.nodes = Append(@, nd),
             !.log = Append(@, <<"build", Len(st.nodes) + 1>>)]

getTargetNode(st, Opc, VT, Ops) == BuildNode(st, Node(Opc, Ops, 0, VT))

\* line 188 with the lower limit excluded
isCustomNode_Off(Opcode) ==
  getOpcode(Opcode) > BUILTIN_OP_END /\ getOpcode(Opcode) < FIRST_NUMBER

\* line 188: "If we have a custom node, we already have selected!"
isCustomNode(Opcode) ==
  getOpcode(Opcode) >= BUILTIN_OP_END /\ getOpcode(Opcode) < FIRST_NUMBER

\* line 214
MulOp(Opcode) == IF Opcode = "MULHU" THEN "MULTu" ELSE "MULT"

\* line 229 with the two instructions exchanged
DivOp_Swapped(Opcode) == IF Opcode = "SDIV" THEN "DIVu" ELSE "DIV"

\* line 229
DivOp(Opcode) == IF Opcode = "SDIV" THEN "DIV" ELSE "DIVu"

\* line 244
RemOp(Opcode) == IF Opcode = "SREM" THEN "DIV" ELSE "DIVu"

\* the lowering with the producer built before the operands are queued
LowerPair_BuildFirst(st, N, ProdOp, ConsOp) ==
  LET Op1 == st.nodes[N].ops[1]
      Op2 == st.nodes[N].ops[2]
      s1 == getTargetNode(st, ProdOp, "Flag", <<Op1, Op2>>)
      MFInFlag == Len(s1.nodes)
      s2 == AddToISelQueue(s1, Op1)
      s3 == AddToISelQueue(s2, Op2)
      s4 == getTargetNode(s3, ConsOp, "i32", <<MFInFlag>>)
  IN [st |-> s4, ret |-> Len(s4.nodes)]

\* the lowering without the two AddToISelQueue calls
LowerPair_NoQueue(st, N, ProdOp, ConsOp) ==
  LET Op1 == st.nodes[N].ops[1]
      Op2 == st.nodes[N].ops[2]
      s3 == getTargetNode(st, ProdOp, "Flag", <<Op1, Op2>>)
      MFInFlag == Len(s3.nodes)
      s4 == getTargetNode(s3, ConsOp, "i32", <<MFInFlag>>)
  IN [st |-> s4, ret |-> Len(s4.nodes)]

\* lines 209-218, 224-233 and 239-248: queue both operands, build the
\* producer with a Flag result, build the consumer on that result and
\* return it.  Indent is left as it is.
LowerPair(st, N, ProdOp, ConsOp) ==
  LET Op1 == st.nodes[N].ops[1]
      Op2 == st.nodes[N].ops[2]
      s1 == AddToISelQueue(st, Op1)
      s2 == AddToISelQueue(s1, Op2)
      s3 == getTargetNode(s2, ProdOp, "Flag", <<Op1, Op2>>)
      MFInFlag == Len(s3.nodes)
      s4 == getTargetNode(s3, ConsOp, "i32", <<MFInFlag>>)
  IN [st |-> s4, ret |-> Len(s4.nodes)]

(* The Pattern Table: SelectCode of MipsGenDAGISel.inc.                    *)

\* nodes the matcher leaves as they are
LegalLeaves == {"EntryToken", "Register", "TargetConstant", "TargetFrameIndex",
                "TargetGlobalAddress", "TargetExternalSymbol"}

\* the instruction a one-to-one pattern emits
MachineFor(op) ==
  CASE op = "ADD" -> "ADDu"
    [] op = "MipsISD_Hi" -> "LUi"
    [] op \in {"Constant", "FrameIndex", "MipsISD_Lo"} -> "ADDiu"
    [] op = "LOAD" -> "LW"
    [] op = "STORE" -> "SW"
    [] OTHER -> "ADDu"

RECURSIVE QueueAll(_, _)
QueueAll(st, ops) ==
  IF ops = <<>> THEN st
  ELSE CHOOSE r \in {QueueAll(s, Tail(ops)) : s \in {AddToISelQueue(st, Head(ops))}} : TRUE

RECURSIVE BuildAll(_, _)
BuildAll(st, nds) ==
  IF nds = <<>> THEN st
  ELSE CHOOSE r \in {BuildAll(s, Tail(nds)) : s \in {BuildNode(st, Head(nds))}} : TRUE

\* a load/store pattern on the `addr` complex pattern: SelectAddr is called
\* with two fresh operands, which become (in argument order) operands of
\* the instruction; every operand is queued before the instruction is built
EmitMem(st, N, front, Addr) ==
  LET r == SelectAddr(st.nodes, Addr) IN
  IF ~r.ret THEN [st |-> st, ret |-> NULL]
  ELSE LET s1 == BuildAll(st, r.new)
           Ops == front \o <<ThirdArg(r), FourthArg(r)>>
           s2 == QueueAll(s1, Ops)
           s3 == getTargetNode(s2, MachineFor(st.nodes[N].op), st.nodes[N].vt, Ops)
       IN [st |-> s3, ret |-> Len(s3.nodes)]

\* SelectCode(N): no match (NULL) or the instruction built for N
SelectCode(st, N) ==
  LET nd == st.nodes[N]
      s0 == [st EXCEPT !.log = Append(@, <<"selectcode", N>>)]
  IN
  IF nd.op \in LegalLeaves \/ nd.op \notin PatternTable THEN
    [st |-> s0, ret |-> NULL]
  ELSE IF nd.op = "LOAD" THEN EmitMem(s0, N, <<>>, nd.ops[1])
  ELSE IF nd.op = "STORE" THEN EmitMem(s0, N, <<nd.ops[1]>>, nd.ops[2])
  ELSE IF nd.op \in {"Constant", "FrameIndex"} THEN
    LET leaf == IF nd.op = "Constant" THEN getTargetConstant(nd.val)
                                      ELSE getTargetFrameIndex(nd.val)
        s1 == BuildNode(s0, leaf)
        s2 == getTargetNode(s1, MachineFor(nd.op), nd.vt, <<Len(s1.nodes)>>)
    IN [st |-> s2, ret |-> Len(s2.nodes)]
  ELSE
    LET s1 == QueueAll(s0, nd.ops)
        s2 == getTargetNode(s1, MachineFor(nd.op), nd.vt, nd.ops)
    IN [st |-> s2, ret |-> Len(s2.nodes)]

\* lines 252-265 returning the node itself when nothing matched
SelectDefault_Self(st, N) ==
  LET r == SelectCode(st, N) IN
  [st |-> [r.st EXCEPT !.indent = @ - 2],
   ret |-> IF r.ret = NULL THEN N ELSE r.ret]

\* lines 252-265: "Select the default instruction"
SelectDefault(st, N) ==
  LET r == SelectCode(st, N) IN
  [st |-> [r.st EXCEPT !.indent = @ - 2], ret |-> r.ret]

\* lines 173-266
Select(st, N) ==
  LET Opcode == st.nodes[N].op
      s0 == [st EXCEPT !.indent = @ + 2]
  IN
  IF isCustomNode(Opcode) THEN
    [st |-> [s0 EXCEPT !.indent = @ - 2], ret |-> NULL]
  ELSE IF Opcode \in {"MULHS", "MULHU"} THEN LowerPair(s0, N, MulOp(Opcode), "MFHI")
  ELSE IF Opcode \in {"SDIV", "UDIV"} THEN LowerPair(s0, N, DivOp(Opcode), "MFLO")
  ELSE IF Opcode \in {"SREM", "UREM"} THEN LowerPair(s0, N, RemOp(Opcode), "MFHI")
  ELSE SelectDefault(s0, N)

-----------------------------------------------------------------------------
(* Select called on the nodes of small DAGs: a node over two leaves.       *)

SpecialOps == {"MULHS", "MULHU", "SDIV", "UDIV", "SREM", "UREM"}

AllOpsSet == {AllOps[i] : i \in 1..Len(AllOps)}

SelLeaves ==
     {Node(op, <<>>, 0, "i32") :
        op \in {"Register", "FrameIndex", "TargetGlobalAddress", "LUi"}}
  \cup {Node("Constant", <<>>, c, "i32") : c \in {8, 70000}}

SelectDAGs ==
     {<<Node(op, <<2, 3>>, 0, "i32"), a, b>> :
        op \in SpecialOps \cup {"ADD", "ADDu", "MULT", "STORE"},
        a \in SelLeaves, b \in SelLeaves}
  \cup {<<Node(op, <<2>>, 0, "i32"), a>> :
        op \in {"LOAD", "MipsISD_Hi", "LW"}, a \in SelLeaves}

InitSelect ==
  /\ nodes \in SelectDAGs
  /\ inDAG = nodes
  /\ DAGSize = Len(nodes)
  /\ root = 1
  /\ alive = 1..Len(nodes)
  /\ NoQueue
  /\ Indent \in 0..MaxGarbage
  /\ PatternTable \in {{}, AllOpsSet}
  /\ pc = "select"
  /\ NoSelect
  /\ NoAddr

\* a call Select(SDOperand(N, 0))
CallSelect(N) ==
  /\ pc = "select"
  /\ calls < MaxCalls
  /\ \E r \in {Select(CallState, N)} :
       /\ nodes' = r.st.nodes
       /\ alive' = alive \cup (Len(nodes) + 1 .. Len(r.st.nodes))
       /\ ISelQueue' = r.st.queue
       /\ ISelQueued' = r.st.queued
       /\ Indent' = r.st.indent
       /\ selRet' = r.ret
       /\ selLog' = r.st.log
  /\ selN' = N
  /\ selIndent0' = Indent
  /\ selCount' = [selCount EXCEPT ![N] = @ + 1]
  /\ calls' = calls + 1
  /\ UNCHANGED <<inDAG, DAGSize, root, ISelSelected, PatternTable, pc, selRepl,
                 addrN, addrRet, arg3, arg4>>

NextSelect == \E N \in 1..DAGSize : CallSelect(N)

SpecSelect == InitSelect /\ [][NextSelect]_vars

-----------------------------------------------------------------------------
(* The driver: InstructionSelectBasicBlock and the SelectRoot loop of      *)
(* MipsGenDAGISel.inc that it runs.                                        *)

Range(f) == {f[i] : i \in DOMAIN f}

Min(S) == CHOOSE x \in S : \A y \in S : x <= y

\* the operands of node n
OperandsOf(ns, n) == Range(ns[n].ops)

\* CurDAG->ReplaceAllUsesOfValueWith(F, T): every use of F becomes a use of T
ReplaceAllUses(ns, F, T) ==
  [i \in DOMAIN ns |->
     [ns[i] EXCEPT !.ops = [j \in DOMAIN ns[i].ops |->
                              IF ns[i].ops[j] = F THEN T ELSE ns[i].ops[j]]]]

\* Node->use_empty(); the handle on the root counts as a use
UseEmpty(ns, live, rt, n) ==
  n # rt /\ \A u \in live : n \notin OperandsOf(ns, u)

\* CurDAG->RemoveDeadNode(Node): the node and, in turn, every operand that
\* is left without a use
RECURSIVE DeadFrom(_, _, _, _)
DeadFrom(ns, live, rt, D) ==
  LET more == {o \in live \ D :
                 /\ \E d \in D : o \in OperandsOf(ns, d)
                 /\ UseEmpty(ns, live \ D, rt, o)}
  IN CHOOSE r \in {IF m = {} THEN D ELSE DeadFrom(ns, live, rt, D \cup m) :
                   m \in {more}} : TRUE

\* the nodes reachable from the nodes R
RECURSIVE Reach(_, _)
Reach(ns, R) ==
  LET more == UNION {OperandsOf(ns, n) : n \in R} \ R
  IN CHOOSE r \in {IF m = {} THEN R ELSE Reach(ns, R \cup m) : m \in {more}} : TRUE

(* The block-level DAGs: a chain of N consumers 1..N of one shared node S  *)
(* (node N+1) over the leaves A (node N+2) and B (node N+3).  Consumer i<N *)
(* is k(consumer i+1, S); the last consumer is load(S), k(S, A) or, as a   *)
(* root, store(A, S).                                                      *)

BinOps == SpecialOps \cup {"ADD"}

KindChoices(N) ==
  {f \in [1..N -> BinOps \cup {"STORE", "LOAD"}] :
     /\ \A i \in 1..N :
          /\ (i < N /\ i = 1) => f[i] \in BinOps \cup {"STORE"}
          /\ (i < N /\ i > 1) => f[i] \in {"ADD", "SDIV"}
     /\ f[N] \in BinOps \cup {"LOAD"} \cup (IF N = 1 THEN {"STORE"} ELSE {})}

SKinds == BinOps \cup {"Register", "FrameIndex", "LUi"}

ALeaves == {Reg, Node("FrameIndex", <<>>, 0, "i32"), Node("Constant", <<>>, 8, "i32")}

BLeaves == {Reg, Node("Constant", <<>>, 8, "i32"), Node("Constant", <<>>, 70000, "i32")}

BlockDAG(N, f, sk, a, b) ==
  LET S == N + 1
      A == N + 2
      B == N + 3
      VT(k) == IF k = "STORE" THEN "ch" ELSE "i32"
      Consumer(i) ==
        IF i < N THEN Node(f[i], <<i + 1, S>>, 0, VT(f[i]))
        ELSE IF f[i] = "LOAD" THEN Node("LOAD", <<S>>, 0, "i32")
        ELSE IF f[i] = "STORE" THEN Node("STORE", <<A, S>>, 0, "ch")
        ELSE Node(f[i], <<S, A>>, 0, "i32")
      SNode == IF sk \in BinOps THEN Node(sk, <<A, B>>, 0, "i32")
                                ELSE Node(sk, <<>>, 0, "i32")
      useA == sk \in BinOps \/ f[N] # "LOAD"
      useB == sk \in BinOps
  IN [i \in 1..N |-> Consumer(i)] \o <<SNode>>
       \o (IF useA THEN <<a>> ELSE <<>>) \o (IF useB THEN <<b>> ELSE <<>>)

BlockDAGs ==
  UNION {{BlockDAG(N, f, sk, a, b) :
            f \in KindChoices(N), sk \in SKinds, a \in ALeaves, b \in BLeaves} :
         N \in 1..MaxConsumers}

InitBlock ==
  /\ nodes \in BlockDAGs
  /\ inDAG = nodes
  /\ DAGSize = Len(nodes)
  /\ root = 1
  /\ alive = 1..Len(nodes)
  /\ NoQueue
  /\ Indent \in 0..MaxGarbage
  /\ PatternTable = AllOpsSet
  /\ pc = "start"
  /\ NoSelect
  /\ NoAddr

\* lines 106-114, up to the first iteration of SelectRoot's loop: Indent is
\* reset and the root is pushed on the selection queue
Begin ==
  /\ pc = "start"
  /\ Indent' = 0
  /\ ISelQueue' = {root}
  /\ pc' = "loop"
  /\ UNCHANGED <<nodes, inDAG, DAGSize, root, alive, ISelQueued, ISelSelected,
                 PatternTable, selN, selRet, selLog, selIndent0, selCount,
                 selRepl, calls, addrN, addrRet, arg3, arg4>>

\* one iteration of SelectRoot's loop: pop the node with the least node id,
\* skip it if selected, Select it, replace its uses by the result and remove
\* it if that leaves it dead
SelectStep ==
  /\ pc = "loop"
  /\ ISelQueue # {}
  /\ LET N == Min(ISelQueue)
         q == ISelQueue \ {N}
     IN
     IF N \in ISelSelected
     THEN /\ ISelQueue' = q
          /\ UNCHANGED <<nodes, root, alive, ISelQueued, ISelSelected, Indent,
                         selN, selRet, selLog, selIndent0, selCount, selRepl>>
     ELSE
       \E r \in {Select([CallState EXCEPT !.queue = q], N)} :
       \E replaced \in {r.ret # NULL /\ r.ret # N} :
       \E ns1 \in {IF replaced THEN ReplaceAllUses(r.st.nodes, N, r.ret)
                                ELSE r.st.nodes} :
       \E rt1 \in {IF replaced /\ root = N THEN r.ret ELSE root} :
       \E live1 \in {alive \cup (Len(nodes) + 1 .. Len(ns1))} :
       \E dead \in {IF r.ret # N /\ UseEmpty(ns1, live1, rt1, N)
                       THEN DeadFrom(ns1, live1, rt1, {N}) ELSE {}} :
          /\ nodes' = ns1
          /\ root' = rt1
          /\ alive' = live1 \ dead
          /\ ISelQueue' = r.st.queue \ dead
          /\ ISelQueued' = r.st.queued
          /\ ISelSelected' = IF replaced THEN ISelSelected \cup {N} ELSE ISelSelected
          /\ Indent' = r.st.indent
          /\ selN' = N
          /\ selRet' = r.ret
          /\ selLog' = r.st.log
          /\ selIndent0' = Indent
          /\ selCount' = [selCount EXCEPT ![N] = @ + 1]
          /\ selRepl' = IF replaced THEN [selRepl EXCEPT ![N] = r.ret] ELSE selRepl
  /\ UNCHANGED <<inDAG, DAGSize, PatternTable, pc, calls, addrN, addrRet, arg3, arg4>>

\* lines 114-123 once the queue is empty: the root is set, RemoveDeadNodes
\* drops what the root no longer reaches, and the DAG goes to
\* ScheduleAndEmitDAG
Finish ==
  /\ pc = "loop"
  /\ ISelQueue = {}
  /\ alive' = Reach(nodes, {root})
  /\ pc' = "done"
  /\ UNCHANGED <<nodes, inDAG, DAGSize, root, ISelQueue, ISelQueued, ISelSelected,
                 Indent, PatternTable, selN, selRet, selLog, selIndent0,
                 selCount, selRepl, calls, addrN, addrRet, arg3, arg4>>

NextBlock == Begin \/ SelectStep \/ Finish

SpecBlock == InitBlock /\ [][NextBlock]_vars

-----------------------------------------------------------------------------
(* Vocabulary of the properties.                                           *)

InputNodes == 1..DAGSize

\* the nodes of the input DAG that use n as an operand
Consumers(n) == {u \in InputNodes : n \in Range(inDAG[u].ops)}

Shared(n) == Cardinality(Consumers(n)) >= 2

IsMachineOp(op) == op \in Range(MachineOps)

IsLegalLeaf(nd) == nd.op \in LegalLeaves /\ nd.ops = <<>>

InRange16(c) == -32768 <= c /\ c <= 32767

IsFrameSlot(nd) == nd.op \in {"FrameIndex", "TargetFrameIndex"}

IsBuild(e) == e[1] = "build"

IsSelectCode(e) == e[1] = "selectcode"

\* the nodes the last Select call built, in order
Built == [i \in DOMAIN SelectSeq(selLog, IsBuild) |-> SelectSeq(selLog, IsBuild)[i][2]]

\* add(X, constant c) with c in the signed 16-bit range
FoldableAdd(a) ==
  /\ inDAG[a].op = "ADD"
  /\ inDAG[inDAG[a].ops[2]].op \in {"Constant", "TargetConstant"}
  /\ InRange16(inDAG[inDAG[a].ops[2]].val)

\* nodes b and o are the base and the offset that the four rules give for
\* the address node a
Decomposed(a, b, o) ==
  /\ b \in DOMAIN nodes
  /\ o \in DOMAIN nodes
  /\ nodes[o].op = "TargetConstant"
  /\ IF IsFrameSlot(inDAG[a]) THEN
       /\ nodes[b] = Node("TargetFrameIndex", <<>>, inDAG[a].val, "i32")
       /\ nodes[o].val = 0
     ELSE IF FoldableAdd(a) THEN
       /\ IF IsFrameSlot(inDAG[inDAG[a].ops[1]])
            THEN nodes[b] = Node("TargetFrameIndex", <<>>, inDAG[inDAG[a].ops[1]].val, "i32")
            ELSE b = inDAG[a].ops[1]
       /\ nodes[o].val = inDAG[inDAG[a].ops[2]].val
     ELSE
       /\ b = a
       /\ nodes[o].val = 0

\* the (producer, consumer) instructions of the special-op table
PairFor(op) ==
  CASE op = "MULHS" -> <<"MULT", "MFHI">>
    [] op = "MULHU" -> <<"MULTu", "MFHI">>
    [] op = "SDIV" -> <<"DIV", "MFLO">>
    [] op = "UDIV" -> <<"DIVu", "MFLO">>
    [] op = "SREM" -> <<"DIV", "MFHI">>
    [] op = "UREM" -> <<"DIVu", "MFHI">>

\* position of the first entry e of the log (0: none)
FirstPos(e) ==
  IF \E i \in DOMAIN selLog : selLog[i] = e
    THEN Min({i \in DOMAIN selLog : selLog[i] = e}) ELSE 0

\* the node that stands for input node n after selection
Final(n) == IF selRepl[n] # NULL THEN selRepl[n] ELSE n

\* what the replacement of input node u refers to: the operands of the
\* node that stands for u and of a producer chained to it by a Flag
ReplacementRefs(u) ==
  OperandsOf(nodes, Final(u)) \cup
  UNION {OperandsOf(nodes, p) : p \in {q \in OperandsOf(nodes, Final(u)) : nodes[q].vt = "Flag"}}

-----------------------------------------------------------------------------
(* The claims.                                                             *)

\* C1: Select on a node with one of the six special opcodes and operands
\* (A, B) builds exactly two nodes, a producer on (A, B) in that order
\* with only a Flag result and a consumer with one i32 result whose only
\* operand is the producer, chosen by the special-op table, and returns
\* the consumer.
C1_SpecialOpTable ==
  (selN # NULL /\ inDAG[selN].op \in SpecialOps) =>
    /\ Len(Built) = 2
    /\ Built = <<Len(nodes) - 1, Len(nodes)>>
    /\ selRet = Built[2]
    /\ nodes[Built[1]].ops = inDAG[selN].ops
    /\ Len(inDAG[selN].ops) = 2
    /\ nodes[Built[1]].vt = "Flag"
    /\ nodes[Built[2]].ops = <<Built[1]>>
    /\ nodes[Built[2]].vt = "i32"
    /\ <<nodes[Built[1]].op, nodes[Built[2]].op>> = PairFor(inDAG[selN].op)

C1_Witness ==
  /\ pc = "select"
  /\ selN # NULL
  /\ inDAG[selN].op = "SDIV"
  /\ selRet # NULL
  /\ nodes[selRet].op = "MFLO"

C4_Decomposition ==
  (addrN # NULL /\ inDAG[addrN].op \notin {"TargetExternalSymbol", "TargetGlobalAddress"}) =>
    Decomposed(addrN, AddrBaseOut, AddrOffsetOut)

C4_Witness ==
  /\ addrN # NULL
  /\ FoldableAdd(addrN)
  /\ inDAG[inDAG[addrN].ops[1]].op = "ADD"
  /\ AddrBaseOut = inDAG[addrN].ops[1]
  /\ nodes[AddrOffsetOut].val = -32768

\* C5: SelectAddr returns false exactly for a TargetExternalSymbol or
\* TargetGlobalAddress address.
C5_FailsOnlyOnSymbols ==
  addrN # NULL =>
    (addrRet = FALSE <=>
       inDAG[addrN].op \in {"TargetExternalSymbol", "TargetGlobalAddress"})

C5_Witness ==
  /\ addrN # NULL
  /\ inDAG[addrN].op = "TargetGlobalAddress"
  /\ addrRet = FALSE
  /\ arg3 = NULL
  /\ arg4 = NULL

\* C6, as stated: in a Select call on a node with a special opcode, both
\* operands were queued (AddToISelQueue) before the producer was built, and
\* every operand of every node the call built was queued before that node
\* was built.
C6_AllOperandsQueued ==
  (selN # NULL /\ inDAG[selN].op \in SpecialOps) =>
    \A i \in DOMAIN selLog :
      IsBuild(selLog[i]) =>
        \A o \in OperandsOf(nodes, selLog[i][2]) :
          \E j \in 1..(i - 1) : selLog[j] = <<"queue", o>>

\* C6, amended: in the last Select call, for a special opcode both
\* operands A and B were queued before the producer was built, and every
\* operand of a built node that the call did not build itself was queued
\* before that node was built.
C6_GraphOperandsQueued ==
  selN # NULL =>
    /\ inDAG[selN].op \in SpecialOps =>
         /\ Len(Built) = 2
         /\ \A o \in Range(inDAG[selN].ops) :
              FirstPos(<<"queue", o>>) # 0
              /\ FirstPos(<<"queue", o>>) < FirstPos(<<"build", Built[1]>>)
    /\ \A i \in DOMAIN selLog :
         IsBuild(selLog[i]) =>
           \A o \in OperandsOf(nodes, selLog[i][2]) :
             \/ \E j \in 1..(i - 1) : selLog[j] = <<"build", o>>
             \/ \E j \in 1..(i - 1) : selLog[j] = <<"queue", o>>

C6_Witness ==
  /\ pc = "select"
  /\ selN # NULL
  /\ inDAG[selN].op = "MULHU"
  /\ Len(selLog) = 4
  /\ selLog[1] = <<"queue", inDAG[selN].ops[1]>>
  /\ selLog[2] = <<"queue", inDAG[selN].ops[2]>>
  /\ IsBuild(selLog[3])

\* C7: Select on a node whose opcode is in the custom-target range returns
\* NULL and builds nothing, queues nothing and does not call SelectCode.
C7_CustomUntouched ==
  (selN # NULL /\ IsMachineOp(inDAG[selN].op)) =>
    /\ selRet = NULL
    /\ selLog = <<>>
    /\ nodes[selN] = inDAG[selN]

C7_Witness ==
  /\ selN # NULL
  /\ inDAG[selN].op = "MULT"
  /\ inDAG[selN].op \in PatternTable
  /\ selRet = NULL

\* C8: Select on a node that is neither custom-target nor special calls
\* SelectCode exactly once and returns its answer: NULL with no node built
\* and the node as it was, or the instruction SelectCode built.
C8_Passthrough ==
  (selN # NULL /\ ~IsMachineOp(inDAG[selN].op) /\ inDAG[selN].op \notin SpecialOps) =>
    /\ Len(SelectSeq(selLog, IsSelectCode)) = 1
    /\ selLog[1] = <<"selectcode", selN>>
    /\ (inDAG[selN].op \notin PatternTable) => selRet = NULL
    /\ selRet = NULL => (Built = <<>> /\ nodes[selN] = inDAG[selN])
    /\ selRet # NULL => (Built # <<>> /\ selRet = Built[Len(Built)])

C8_Witness ==
  /\ selN # NULL
  /\ inDAG[selN].op = "ADD"
  /\ PatternTable = {}
  /\ selRet = NULL
  /\ calls = 1
  /\ Len(nodes) = DAGSize

\* C9: on a successful match the third argument of SelectAddr receives the
\* base and the fourth the offset, as the declaration (Base, Offset) says.
C9_BaseThenOffset ==
  (addrN # NULL /\ addrRet) => Decomposed(addrN, arg3, arg4)

\* C10: Indent is 0 when the selection of a block begins and every Select
\* call leaves it as it found it, so it is 0 whenever no Select call is in
\* progress.
C10_IndentBalanced ==
  pc \in {"loop", "done"} => Indent = 0

====
